---- MODULE Spec2Model ----
(***************************************************************************)
(* Web page to PDF/DOCX converter (src/code1.py).                          *)
(*                                                                         *)
(* Markup is a sequence of tokens (start tag, end tag, character data);    *)
(* a parsed document is a forest of nodes.  BeautifulSoup(text,            *)
(* "html.parser") is Parse, str(soup) / str(tag) is Serialize.  A text     *)
(* value is a sequence of atoms, so that two adjacent runs of character    *)
(* data read back as one string.                                           *)
(***************************************************************************)
EXTENDS Integers, Sequences, FiniteSets, TLC

VARIABLES
    pc,            \* where main() stands: "loop", "done"; or the function under exercise
    urls,          \* the text inputs
    doc_type,      \* the selectbox
    idx,           \* the position of the for loop over urls
    combined,      \* combined_html_content
    base_url,      \* base_url, as the last fetched page left it
    log,           \* what st.warning / st.error have shown
    fetched,       \* history: what fetch_webpage met for each non-empty URL
    styled_pages,  \* history: the styled markup each processed page added
    handed,        \* history: the calls of the renderers
    download,      \* the download button offered, if any
    arg, ret, ret2 \* a function exercised on its own: input, result, second result

vars == <<pc, urls, doc_type, idx, combined, base_url, log, fetched, styled_pages,
          handed, download, arg, ret, ret2>>

None == "None"

(***************************************************************************)
(* Nodes and tokens.                                                       *)
(***************************************************************************)
\* A Tag: name, attributes (a set of <<name, value>> pairs; a multi-valued
\* attribute such as class or rel has one pair per value), children.
Elem(tag, attrs, kids) == [tag |-> tag, attrs |-> attrs, text |-> <<>>, kids |-> kids]

\* A NavigableString.
Text(t) == [tag |-> "#text", attrs |-> {}, text |-> t, kids |-> <<>>]

IsText(n) == n.tag = "#text"

\* tag.get(name): the attribute's value, or None.
Get(n, name) ==
    IF \E p \in n.attrs : p[1] = name
    THEN (CHOOSE p \in n.attrs : p[1] = name)[2]
    ELSE None

StartTag(n) == [k |-> "open", tag |-> n.tag, attrs |-> n.attrs, text |-> <<>>]
EndTag(tag) == [k |-> "close", tag |-> tag, attrs |-> {}, text |-> <<>>]
Data(t) == [k |-> "text", tag |-> "#text", attrs |-> {}, text |-> t]

\* html.parser's builder: the elements that never have an end tag.
VoidTags == {"link", "img", "br", "hr", "meta", "input"}

RECURSIVE MergeText(_)
\* Adjacent runs of character data are one run in the string.
MergeText(toks) ==
    IF Len(toks) < 2 THEN toks
    ELSE IF toks[1].k = "text" /\ toks[2].k = "text"
         THEN MergeText(<<Data(toks[1].text \o toks[2].text)>> \o SubSeq(toks, 3, Len(toks)))
         ELSE <<toks[1]>> \o MergeText(Tail(toks))

RECURSIVE Decode(_), DecodeAll(_)
\* Tag.decode: an empty void element is written <x/>, any other element as
\* start tag, contents, end tag.
Decode(n) ==
    IF IsText(n) THEN <<Data(n.text)>>
    ELSE IF n.tag \in VoidTags /\ n.kids = <<>> THEN <<StartTag(n)>>
    ELSE <<StartTag(n)>> \o DecodeAll(n.kids) \o <<EndTag(n.tag)>>

DecodeAll(f) == IF f = <<>> THEN <<>> ELSE Decode(f[1]) \o DecodeAll(Tail(f))

\* str(soup), str(tag).
Serialize(f) == MergeText(DecodeAll(f))

\* Appending a parsed object to the element on top of the builder's stack;
\* character data that follows character data extends the same string.
AddKid(frame, n) ==
    LET ks == frame.kids IN
    IF IsText(n) /\ ks # <<>> /\ IsText(ks[Len(ks)])
    THEN [frame EXCEPT !.kids = SubSeq(ks, 1, Len(ks) - 1) \o <<Text(ks[Len(ks)].text \o n.text)>>]
    ELSE [frame EXCEPT !.kids = Append(ks, n)]

RECURSIVE PopTo(_, _)
\* popTag until the stack has depth d: each closed element becomes the last
\* child of the element below it.
PopTo(stack, d) ==
    IF Len(stack) <= d THEN stack
    ELSE LET top == stack[Len(stack)]
             below == stack[Len(stack) - 1]
             rest == SubSeq(stack, 1, Len(stack) - 2)
         IN PopTo(Append(rest, AddKid(below, top)), d)

\* The tree builder's step on one token.  stack[1] is the BeautifulSoup
\* object itself.
Feed(stack, tok) ==
    IF tok.k = "text" THEN
        [stack EXCEPT ![Len(stack)] = AddKid(@, Text(tok.text))]
    ELSE IF tok.k = "open" THEN
        IF tok.tag \in VoidTags
        THEN [stack EXCEPT ![Len(stack)] = AddKid(@, Elem(tok.tag, tok.attrs, <<>>))]
        ELSE Append(stack, Elem(tok.tag, tok.attrs, <<>>))
    ELSE \* an end tag closes the most recent open element of that name, and
         \* everything opened inside it; with no such element it is ignored
        LET open == {j \in 2..Len(stack) : stack[j].tag = tok.tag} IN
        IF open = {} THEN stack
        ELSE PopTo(stack, (CHOOSE j \in open : \A m \in open : m <= j) - 1)

RECURSIVE FeedAll(_, _)
FeedAll(stack, toks) ==
    IF toks = <<>> THEN stack ELSE FeedAll(Feed(stack, toks[1]), Tail(toks))

\* BeautifulSoup(markup, "html.parser"): the document's top-level nodes.
Parse(toks) == PopTo(FeedAll(<<Elem("[document]", {}, <<>>)>>, toks), 1)[1].kids

(***************************************************************************)
(* Searching the tree.                                                     *)
(***************************************************************************)
RECURSIVE Descendants(_), DescendantsAll(_)
\* tag.descendants: the nodes below, in document order.
Descendants(n) == DescendantsAll(n.kids)

DescendantsAll(f) ==
    IF f = <<>> THEN <<>>
    ELSE <<f[1]>> \o Descendants(f[1]) \o DescendantsAll(Tail(f))

HasTag(f, tag) == \E i \in 1..Len(DescendantsAll(f)) : DescendantsAll(f)[i].tag = tag

\* soup.find(...): the first match in document order, as a sequence of at
\* most one node (empty for None).
First(matches) == IF matches = <<>> THEN <<>> ELSE <<matches[1]>>

\* a or b, on find results.
OrElse(a, b) == IF a # <<>> THEN a ELSE b

IsTag(n, tag) == n.tag = tag

\* find('div', class_=c): class is multi-valued, any of its values matches.
IsDivClass(n, c) == n.tag = "div" /\ <<"class", c>> \in n.attrs

\* find('div', id=v).
IsDivId(n, v) == n.tag = "div" /\ <<"id", v>> \in n.attrs

find_tag(f, tag) == First(SelectSeq(DescendantsAll(f), LAMBDA n : IsTag(n, tag)))
find_div_class(f, c) == First(SelectSeq(DescendantsAll(f), LAMBDA n : IsDivClass(n, c)))
find_div_id(f, v) == First(SelectSeq(DescendantsAll(f), LAMBDA n : IsDivId(n, v)))

RECURSIVE get_text(_), get_text_all(_)
\* element.get_text(): the strings below, joined.
get_text(n) == IF IsText(n) THEN n.text ELSE get_text_all(n.kids)

get_text_all(f) == IF f = <<>> THEN <<>> ELSE get_text(f[1]) \o get_text_all(Tail(f))

(***************************************************************************)
(* Log entries: st.warning / st.error, with the reference they name.       *)
(* A reference is <<base, path>>; an absolute one has base "".             *)
(***************************************************************************)
NoRef == <<"", "">>

Warning(what, ref) == [level |-> "warning", what |-> what, ref |-> ref]
Error(what, ref) == [level |-> "error", what |-> what, ref |-> ref]

Warnings(l) == SelectSeq(l, LAMBDA e : e.level = "warning")

\* The references the model treats as starting with "http".
HttpRefs == {"http://cdn.example/s.css", "http://cdn.example/i.png"}

\* urljoin(base, ref): an absolute reference passes through.
urljoin(base, ref) == IF ref \in HttpRefs THEN <<"", ref>> ELSE <<base, ref>>

\* Python truthiness of tag.get(name).
Truthy(v) == v # None /\ v # ""

(***************************************************************************)
(* fetch_webpage's callers see text or None; the stylesheet and image      *)
(* fetches see text/bytes or a RequestException.                           *)
(***************************************************************************)
Fail == "fail"

(***************************************************************************)
(* include_css                                                             *)
(***************************************************************************)
IsStylesheetLink(n) == n.tag = "link" /\ <<"rel", "stylesheet">> \in n.attrs

\* include_css_link, were a failed link replaced by an empty style element.
include_css_link_drops(n, st, base, outs) ==
    LET href == Get(n, "href") IN
    IF ~Truthy(href) THEN [node |-> n, n |-> st.n, log |-> st.log]
    ELSE LET url == IF href \in HttpRefs THEN <<"", href>> ELSE urljoin(base, href)
             got == outs[st.n + 1]
         IN IF got = Fail
            THEN [node |-> Elem("style", {<<"type", "text/css">>}, <<>>), n |-> st.n + 1,
                  log |-> Append(st.log, Warning("css", url))]
            ELSE [node |-> Elem("style", {<<"type", "text/css">>}, <<Text(<<got>>)>>),
                  n |-> st.n + 1, log |-> st.log]

\* One iteration of the loop over css_links, for the link n.  st.n counts the
\* requests made so far; outs[k] is what the k-th request returns.
include_css_link(n, st, base, outs) ==
    LET href == Get(n, "href") IN
    IF ~Truthy(href) THEN [node |-> n, n |-> st.n, log |-> st.log]
    ELSE LET url == IF href \in HttpRefs THEN <<"", href>> ELSE urljoin(base, href)
             got == outs[st.n + 1]
         IN IF got = Fail
            THEN [node |-> n, n |-> st.n + 1,
                  log |-> Append(st.log, Warning("css", url))]
            ELSE [node |-> Elem("style", {<<"type", "text/css">>}, <<Text(<<got>>)>>),
                  n |-> st.n + 1, log |-> st.log]

RECURSIVE include_css_walk(_, _, _, _)
\* The loop over css_links, which find_all lists in document order.
include_css_walk(f, st, base, outs) ==
    IF f = <<>> THEN [f |-> <<>>, n |-> st.n, log |-> st.log]
    ELSE LET head == f[1]
             r1 == IF IsStylesheetLink(head)
                   THEN LET r == include_css_link(head, st, base, outs)
                        IN [f |-> <<r.node>>, n |-> r.n, log |-> r.log]
                   ELSE LET r == include_css_walk(head.kids, st, base, outs)
                        IN [f |-> <<[head EXCEPT !.kids = r.f]>>, n |-> r.n, log |-> r.log]
             r2 == include_css_walk(Tail(f), [n |-> r1.n, log |-> r1.log], base, outs)
         IN [f |-> r1.f \o r2.f, n |-> r2.n, log |-> r2.log]

\* include_css(soup, base_url): the markup and the warnings raised.
include_css(soup, base, outs) ==
    LET r == include_css_walk(soup, [n |-> 0, log |-> <<>>], base, outs)
    IN [html |-> Serialize(r.f), log |-> r.log]

\* The number of requests include_css makes on soup.
CssRequests(soup) ==
    Len(SelectSeq(DescendantsAll(soup),
                  LAMBDA n : IsStylesheetLink(n) /\ Truthy(Get(n, "href"))))

(***************************************************************************)
(* extract_main_content                                                    *)
(***************************************************************************)
SidebarTags == {"aside", "nav", "header", "footer"}

RECURSIVE decompose_all(_, _), decompose_kids(_, _)

\* decompose_all, were only the direct children searched (recursive=False).
decompose_children_only(n, names) ==
    [n EXCEPT !.kids = SelectSeq(n.kids, LAMBDA c : c.tag \notin names)]

\* for sidebar in main_content.find_all(names): sidebar.decompose()
\* Every descendant with one of the names leaves the tree, with all below it.
decompose_all(n, names) == [n EXCEPT !.kids = decompose_kids(n.kids, names)]

decompose_kids(f, names) ==
    IF f = <<>> THEN <<>>
    ELSE IF f[1].tag \in names THEN decompose_kids(Tail(f), names)
    ELSE <<decompose_all(f[1], names)>> \o decompose_kids(Tail(f), names)

\* find_main_content, were article looked up before main.
find_main_content_article_first(soup) ==
    LET first == OrElse(find_tag(soup, "article"), find_tag(soup, "main")) IN
    IF first # <<>> THEN first
    ELSE OrElse(find_div_class(soup, "main-content"),
         OrElse(find_div_id(soup, "main-content"),
         OrElse(find_div_class(soup, "content"),
         OrElse(find_div_id(soup, "content"),
                find_div_class(soup, "primary-content")))))

\* main_content = soup.find('main') or soup.find('article'), and failing
\* both the chain of div lookups.
find_main_content(soup) ==
    LET first == OrElse(find_tag(soup, "main"), find_tag(soup, "article")) IN
    IF first # <<>> THEN first
    ELSE OrElse(find_div_class(soup, "main-content"),
         OrElse(find_div_id(soup, "main-content"),
         OrElse(find_div_class(soup, "content"),
         OrElse(find_div_id(soup, "content"),
                find_div_class(soup, "primary-content")))))

extract_main_content(soup) ==
    LET main_content == find_main_content(soup) IN
    IF main_content # <<>>
    THEN [html |-> Serialize(<<decompose_all(main_content[1], SidebarTags)>>), log |-> <<>>]
    ELSE [html |-> Serialize(soup), log |-> <<Warning("main-content-not-found", NoRef)>>]

(***************************************************************************)
(* style_html_content                                                      *)
(***************************************************************************)
BaselineCss == <<"baseline-css">>

StyleTag == Elem("style", {}, <<Text(BaselineCss)>>)

\* tag.insert(0, n) / tag.append(n) on a list of children.
Insert0(kids, n) == <<n>> \o kids
AppendKid(kids, n) == kids \o <<n>>

RECURSIVE OnFirst(_, _, _, _)
\* soup.<tag>.insert(0, n) or soup.<tag>.append(n): soup.<tag> is the first
\* element of that name in document order.
OnFirst(f, tag, op, n) ==
    IF f = <<>> THEN <<>>
    ELSE IF f[1].tag = tag
         THEN <<[f[1] EXCEPT !.kids = IF op = "insert0" THEN Insert0(@, n) ELSE AppendKid(@, n)]>>
              \o Tail(f)
    ELSE IF HasTag(f[1].kids, tag)
         THEN <<[f[1] EXCEPT !.kids = OnFirst(@, tag, op, n)]>> \o Tail(f)
    ELSE <<f[1]>> \o OnFirst(Tail(f), tag, op, n)

style_html_content(html_content) ==
    LET soup == Parse(html_content)
        s1 == IF ~HasTag(soup, "html") THEN Insert0(soup, Elem("html", {}, <<>>)) ELSE soup
        s2 == IF ~HasTag(s1, "head") THEN OnFirst(s1, "html", "insert0", Elem("head", {}, <<>>)) ELSE s1
        s3 == OnFirst(s2, "head", "append", StyleTag)
    IN Serialize(s3)

(***************************************************************************)
(* convert_to_docx                                                         *)
(***************************************************************************)
ImageWidthInches == 4

Heading(text, level) ==
    [kind |-> "Heading", level |-> level, text |-> text, src |-> NoRef, width |-> 0]
Paragraph(text) ==
    [kind |-> "Paragraph", level |-> 0, text |-> text, src |-> NoRef, width |-> 0]
Picture(url) ==
    [kind |-> "Image", level |-> 0, text |-> <<>>, src |-> url, width |-> ImageWidthInches]

\* doc.add_*: the block joins the document; from records which branch of
\* process_element added it.
Add(st, block, from) ==
    [st EXCEPT !.blocks = Append(@, block), !.from = Append(@, from)]

\* fetch_image, were the RequestException not caught around the request.
fetch_image_uncaught(element, st, base, outs) ==
    LET img_url == Get(element, "src") IN
    IF ~Truthy(img_url) THEN st
    ELSE LET url == urljoin(base, img_url)
             got == outs[st.n + 1]
             s1 == [st EXCEPT !.n = @ + 1]
         IN IF got = Fail
            THEN [s1 EXCEPT !.raised = TRUE]
            ELSE Add(s1, Picture(url), "img")

\* The img branch: the k-th request (k = st.n + 1) answers outs[k]; a
\* RequestException is caught and reported.
fetch_image(element, st, base, outs) ==
    LET img_url == Get(element, "src") IN
    IF ~Truthy(img_url) THEN st
    ELSE LET url == urljoin(base, img_url)
             got == outs[st.n + 1]
             s1 == [st EXCEPT !.n = @ + 1]
         IN IF got = Fail
            THEN [s1 EXCEPT !.log = Append(@, Warning("image", url))]
            ELSE Add(s1, Picture(url), "img")

\* The element's own branch of process_element (the if/elif chain).
process_own(element, st, base, outs) ==
    IF element.tag = "h1" THEN Add(st, Heading(get_text(element), 1), "h1")
    ELSE IF element.tag = "h2" THEN Add(st, Heading(get_text(element), 2), "h2")
    ELSE IF element.tag = "h3" THEN Add(st, Heading(get_text(element), 3), "h3")
    ELSE IF element.tag = "p" THEN Add(st, Paragraph(get_text(element)), "p")
    ELSE IF element.tag = "img" THEN fetch_image(element, st, base, outs)
    ELSE st

RECURSIVE process_element(_, _, _, _), process_children(_, _, _, _)

\* process_element, were the children walked before the element's own branch.
process_element_children_first(element, st, base, outs) ==
    IF st.raised THEN st
    ELSE IF IsText(element) THEN [st EXCEPT !.raised = TRUE]
    ELSE LET s1 == process_children(element.kids, st, base, outs)
         IN IF s1.raised THEN s1 ELSE process_own(element, s1, base, outs)

\* process_element(element).  A NavigableString has a name (None) and no
\* children: reading element.children raises AttributeError, which ends the
\* conversion.
process_element(element, st, base, outs) ==
    IF st.raised THEN st
    ELSE IF IsText(element) THEN [st EXCEPT !.raised = TRUE]
    ELSE process_children(element.kids, process_own(element, st, base, outs), base, outs)

\* for child in element.children
process_children(kids, st, base, outs) ==
    IF kids = <<>> \/ st.raised THEN st
    ELSE LET child == kids[1]
             s1 == IF IsText(child)
                   THEN Add(st, Paragraph(child.text), "#text")
                   ELSE process_element(child, st, base, outs)
         IN process_children(Tail(kids), s1, base, outs)

RECURSIVE process_body(_, _, _, _, _)
\* for element in body.children: if hasattr(element, 'name'): ...
\* An element has a name.  A string has one (the property name, None) in
\* the bs4 releases that define it, and is then handed to process_element;
\* in the releases that do not, it is passed over.  named says which.
process_body(kids, st, base, outs, named) ==
    IF kids = <<>> \/ st.raised THEN st
    ELSE IF IsText(kids[1]) /\ ~named THEN process_body(Tail(kids), st, base, outs, named)
    ELSE process_body(Tail(kids), process_element(kids[1], st, base, outs), base, outs, named)

\* soup.body if soup.body else soup, as the children the walk starts from.
WalkRoot(soup) ==
    LET body == find_tag(soup, "body") IN
    IF body # <<>> THEN body[1].kids ELSE soup

\* The number of requests the walk can make: the img elements with a src.
ImageRequests(f) ==
    Len(SelectSeq(DescendantsAll(f), LAMBDA n : n.tag = "img" /\ Truthy(Get(n, "src"))))

\* convert_to_docx(html_content, base_url).  outs[k] is what the k-th image
\* request returns; save_ok is whether the writer (add_picture, save)
\* accepts the document; named is whether strings have a name attribute.
\* Any exception but the caught RequestException ends in st.error and None.
convert_to_docx(html_content, base, outs, save_ok, named) ==
    LET soup == Parse(html_content)
        st == process_body(WalkRoot(soup),
                           [blocks |-> <<>>, from |-> <<>>, log |-> <<>>, n |-> 0, raised |-> FALSE],
                           base, outs, named)
    IN [ok |-> ~st.raised /\ save_ok, raised |-> st.raised, named |-> named,
        blocks |-> st.blocks, from |-> st.from, n |-> st.n, outs |-> outs,
        log |-> IF st.raised \/ ~save_ok THEN Append(st.log, Error("docx", NoRef)) ELSE st.log]

(***************************************************************************)
(* Input markup: the serializations of the forests of at most n nodes      *)
(* over a set of labels (childless nodes).                                 *)
(***************************************************************************)
IsLeaf(l) == IsText(l) \/ l.tag \in VoidTags

RECURSIVE Forests(_, _)
\* The forests of exactly n nodes.
Forests(L, n) ==
    IF n = 0 THEN {<<>>}
    ELSE UNION { LET inner == IF IsLeaf(c[1])
                              THEN (IF c[2] = 1 THEN {<<>>} ELSE {})
                              ELSE Forests(L, c[2] - 1)
                 IN { <<[c[1] EXCEPT !.kids = ks]>> \o rest :
                        ks \in inner, rest \in Forests(L, n - c[2]) }
               : c \in L \X (1..n) }

Markups(L, n) == { Serialize(f) : f \in UNION { Forests(L, k) : k \in 0..n } }

BaseA == "http://a.example/"
BaseB == "http://b.example/"

\* The variables of main(), at rest while one function is exercised.
MainIdle ==
    /\ urls = <<>> /\ doc_type = "PDF" /\ idx = 1 /\ combined = <<>>
    /\ base_url = None /\ log = <<>> /\ fetched = <<>> /\ styled_pages = <<>>
    /\ handed = <<>> /\ download = <<>>

MainUnchanged ==
    UNCHANGED <<urls, doc_type, idx, combined, base_url, log, fetched, styled_pages,
                handed, download>>

(***************************************************************************)
(* Content Selector on arbitrary markup.                                   *)
(***************************************************************************)
MaxSelectNodes == 3

SelectLabels ==
    { Elem("main", {}, <<>>), Elem("article", {}, <<>>),
      Elem("div", {<<"class", "main-content">>}, <<>>),
      Elem("div", {<<"id", "main-content">>}, <<>>),
      Elem("div", {<<"class", "content">>}, <<>>),
      Elem("div", {<<"id", "content">>}, <<>>),
      Elem("div", {<<"class", "primary-content">>, <<"class", "wide">>}, <<>>),
      Elem("section", {<<"class", "content">>}, <<>>) }

InitSelect ==
    /\ MainIdle
    /\ pc = "select"
    /\ arg \in Markups(SelectLabels, MaxSelectNodes)
    /\ ret = <<>> /\ ret2 = <<>>

\* main_content_html = extract_main_content(BeautifulSoup(html_with_css))
Select ==
    /\ pc = "select"
    /\ ret' = extract_main_content(Parse(arg))
    /\ pc' = "selected"
    /\ UNCHANGED <<arg, ret2>>
    /\ MainUnchanged

NextSelect == Select

SpecSelect == InitSelect /\ [][NextSelect]_vars

(***************************************************************************)
(* main(): the run that "Generate Document" starts.                        *)
(***************************************************************************)
\* st.number_input(..., min_value=1, max_value=6)
MaxLinks == 6

\* The model's bound on the number of links.
MaxUrls == 3

UrlA == "http://a.example/one"
UrlB == "http://b.example/two"

\* requests.compat.urljoin(url, '/')
BaseOf(url) == IF url = UrlA THEN BaseA ELSE BaseB

T(t) == Text(<<t>>)

\* A page with a main region holding one h1 and one p.
PageMain ==
    Serialize(<<Elem("html", {}, <<Elem("head", {}, <<>>),
        Elem("body", {}, <<Elem("main", {}, <<Elem("h1", {}, <<T("Title")>>),
                                               Elem("p", {}, <<T("Body text")>>)>>)>>)>>)>>)

\* A page none of the heuristics matches, with a stylesheet and an image.
PageFull ==
    Serialize(<<Elem("html", {}, <<
        Elem("head", {}, <<Elem("link", {<<"rel", "stylesheet">>, <<"href", "s.css">>}, <<>>)>>),
        Elem("body", {}, <<Elem("h2", {}, <<T("News")>>),
                           Elem("img", {<<"src", "i.png">>}, <<>>)>>)>>)>>)

Pages == {PageMain, PageFull}

CssOutcomes == {Fail, "c1"}
ImageOutcomes == {Fail, "ok"}

\* if combined_html_content: / if html_content: / if main_content_html:
NonEmpty(text) == text # <<>>

\* combined_html_content += styled_html_content
Concat(a, b) == MergeText(a \o b)

PageRef(url) == <<"", url>>

Init ==
    /\ pc = "loop"
    /\ \E n \in 1..(IF MaxUrls < MaxLinks THEN MaxUrls ELSE MaxLinks) :
           urls \in [1..n -> {"", UrlA, UrlB}]
    /\ doc_type \in {"PDF", "DOCX"}
    /\ idx = 1
    /\ combined = <<>>
    /\ base_url = None
    /\ log = <<>> /\ fetched = <<>> /\ styled_pages = <<>>
    /\ handed = <<>> /\ download = <<>>
    /\ arg = <<>> /\ ret = <<>> /\ ret2 = <<>>

AloneUnchanged == UNCHANGED <<arg, ret, ret2>>

InLoop == pc = "loop" /\ idx <= Len(urls)

\* if url: (an empty input is passed over)
SkipEmptyUrl ==
    /\ InLoop
    /\ urls[idx] = ""
    /\ idx' = idx + 1
    /\ UNCHANGED <<pc, urls, doc_type, combined, base_url, log, fetched, styled_pages,
                   handed, download>>
    /\ AloneUnchanged

\* fetch_webpage returns None: requests.get or raise_for_status raised.
FetchFails ==
    /\ InLoop
    /\ urls[idx] # ""
    /\ log' = log \o <<Error("fetch", PageRef(urls[idx])), Warning("page", PageRef(urls[idx]))>>
    /\ fetched' = Append(fetched, [url |-> urls[idx], ok |-> FALSE, text |-> <<>>])
    /\ idx' = idx + 1
    /\ UNCHANGED <<pc, urls, doc_type, combined, base_url, styled_pages, handed, download>>
    /\ AloneUnchanged

\* The body of "if html_content:" for the text the fetch returned.
ProcessPage(url, html_content, outs) ==
    LET soup == Parse(html_content)
        base == BaseOf(url)
        html_with_css == include_css(soup, base, outs)
        main_content == extract_main_content(Parse(html_with_css.html))
        styled_html_content ==
            IF NonEmpty(main_content.html)
            THEN style_html_content(main_content.html)
            ELSE style_html_content(html_with_css.html)
    IN /\ combined' = Concat(combined, styled_html_content)
       /\ base_url' = base
       /\ log' = log \o html_with_css.log \o main_content.log
       /\ styled_pages' = Append(styled_pages, [url |-> url, html |-> styled_html_content])

\* fetch_webpage returns response.text.
FetchSucceeds ==
    /\ InLoop
    /\ urls[idx] # ""
    /\ \E html_content \in Pages \cup {<<>>} :
        /\ fetched' = Append(fetched, [url |-> urls[idx], ok |-> TRUE, text |-> html_content])
        /\ IF NonEmpty(html_content)
           THEN \E outs \in [1..CssRequests(Parse(html_content)) -> CssOutcomes] :
                    ProcessPage(urls[idx], html_content, outs)
           ELSE /\ log' = Append(log, Warning("page", PageRef(urls[idx])))
                /\ UNCHANGED <<combined, base_url, styled_pages>>
    /\ idx' = idx + 1
    /\ UNCHANGED <<pc, urls, doc_type, handed, download>>
    /\ AloneUnchanged

AfterLoop == pc = "loop" /\ idx > Len(urls)

\* HasContent, were the test left out.
HasContentAlways == TRUE

\* if combined_html_content:
HasContent == NonEmpty(combined)

\* else: st.warning("No valid content to generate document.")
NoValidContent ==
    /\ AfterLoop
    /\ ~HasContent
    /\ log' = Append(log, Warning("no-valid-content", NoRef))
    /\ pc' = "done"
    /\ UNCHANGED <<urls, doc_type, idx, combined, base_url, fetched, styled_pages,
                   handed, download>>
    /\ AloneUnchanged

Call(renderer, markup, r) ==
    [renderer |-> renderer, markup |-> markup, blocks |-> r.blocks, from |-> r.from,
     ok |-> r.ok, outs |-> r.outs, named |-> r.named]

\* convert_to_pdf and the download button.
GeneratePdf ==
    /\ AfterLoop
    /\ HasContent
    /\ doc_type = "PDF"
    /\ \E pdf_ok \in BOOLEAN :
        /\ handed' = Append(handed, Call("pdf", combined,
                              [blocks |-> <<>>, from |-> <<>>, ok |-> pdf_ok, outs |-> <<>>,
                               named |-> FALSE]))
        /\ IF pdf_ok
           THEN /\ download' = <<[file_name |-> "combined_webpage.pdf",
                                  mime |-> "application/pdf"]>>
                /\ log' = log
           ELSE /\ download' = <<>>
                /\ log' = Append(log, Error("pdf", NoRef))
    /\ pc' = "done"
    /\ UNCHANGED <<urls, doc_type, idx, combined, base_url, fetched, styled_pages>>
    /\ AloneUnchanged

\* convert_to_docx and the download button.
GenerateDocx ==
    /\ AfterLoop
    /\ HasContent
    /\ doc_type = "DOCX"
    /\ \E outs \in [1..ImageRequests(Parse(combined)) -> ImageOutcomes],
          save_ok \in BOOLEAN, named \in BOOLEAN :
        LET r == convert_to_docx(combined, base_url, outs, save_ok, named) IN
        /\ handed' = Append(handed, Call("docx", combined, r))
        /\ log' = log \o r.log
        /\ download' =
             IF r.ok
             THEN <<[file_name |-> "combined_webpage.docx",
                     mime |-> "application/vnd.openxmlformats-officedocument.wordprocessingml.document"]>>
             ELSE <<>>
    /\ pc' = "done"
    /\ UNCHANGED <<urls, doc_type, idx, combined, base_url, fetched, styled_pages>>
    /\ AloneUnchanged

Next ==
    \/ SkipEmptyUrl
    \/ FetchFails
    \/ FetchSucceeds
    \/ NoValidContent
    \/ GeneratePdf
    \/ GenerateDocx

Spec == Init /\ [][Next]_vars

(***************************************************************************)
(* Properties of main().                                                   *)
(***************************************************************************)
RECURSIVE ConcatAll(_)
ConcatAll(pages) ==
    IF pages = <<>> THEN <<>> ELSE Concat(pages[1].html, ConcatAll(Tail(pages)))

UrlsOf(records) == [i \in 1..Len(records) |-> records[i].url]

PageWarnings == SelectSeq(log, LAMBDA e : e.level = "warning" /\ e.what = "page")

\* C1 (as stated): when the loop over the URLs has ended, the combined markup
\* is the concatenation, in input order, of the styled markup of exactly the
\* pages whose fetch succeeded, and the page warnings name exactly the URLs
\* whose fetch failed; empty inputs were neither fetched nor warned about.
C1_CombinedIsSucceededPages ==
    pc = "done" =>
        /\ combined = ConcatAll(styled_pages)
        /\ UrlsOf(fetched) = SelectSeq(urls, LAMBDA u : u # "")
        /\ UrlsOf(styled_pages) = UrlsOf(SelectSeq(fetched, LAMBDA f : f.ok))
        /\ [i \in 1..Len(PageWarnings) |-> PageWarnings[i].ref]
             = [i \in 1..Len(SelectSeq(fetched, LAMBDA f : ~f.ok)) |->
                    PageRef(SelectSeq(fetched, LAMBDA f : ~f.ok)[i].url)]

RECURSIVE PagesBlocks(_, _, _, _)
\* The block sequences of the pages, one after the other, the image requests
\* answered in the order they are made.
PagesBlocks(pages, base, outs, named) ==
    IF pages = <<>> THEN <<>>
    ELSE LET r == convert_to_docx(pages[1].html, base, outs, TRUE, named)
         IN r.blocks \o PagesBlocks(Tail(pages), base, SubSeq(outs, r.n + 1, Len(outs)), named)

DocxCalled == handed # <<>> /\ handed[1].renderer = "docx"

\* C2 (as stated): on the DOCX path the blocks handed to the writer are the
\* ordered concatenation of the block sequences of all processed pages.
C2_BlocksOfAllPages ==
    (pc = "done" /\ DocxCalled /\ handed[1].ok) =>
        handed[1].blocks = PagesBlocks(styled_pages, base_url, handed[1].outs, handed[1].named)

\* C3 (as stated): two URLs, the first returning the page whose main holds
\* one h1 "Title" and one p "Body text", the second failing: the DOCX blocks
\* are exactly Heading("Title", 1) and Paragraph("Body text"), and the only
\* warning names the second URL.
C3_EndToEndDocx ==
    ( /\ pc = "done" /\ doc_type = "DOCX"
      /\ fetched = << [url |-> UrlA, ok |-> TRUE, text |-> PageMain],
                      [url |-> UrlB, ok |-> FALSE, text |-> <<>>] >> )
    => /\ DocxCalled
       /\ handed[1].blocks = << Heading(<<"Title">>, 1), Paragraph(<<"Body text">>) >>
       /\ Warnings(log) = << Warning("page", PageRef(UrlB)) >>

\* C4: a renderer is called only after the loop over all URLs, and only if
\* some page produced content; a download is offered only after a renderer
\* was called; a run in which no page produced content (in particular one
\* whose URLs were all empty or failed) ends with the "no valid content"
\* warning, no renderer call and no download.
C4_NoContentNoRenderer ==
    /\ handed # <<>> => (idx > Len(urls) /\ styled_pages # <<>>)
    /\ download # <<>> => handed # <<>>
    /\ (\A i \in 1..Len(fetched) : ~fetched[i].ok) => styled_pages = <<>>
    /\ (pc = "done" /\ styled_pages = <<>>) =>
          /\ handed = <<>> /\ download = <<>>
          /\ log # <<>> /\ log[Len(log)] = Warning("no-valid-content", NoRef)

\* A run of two URLs, one empty and one failing, has ended with no content.
C4_Witness ==
    /\ pc = "done" /\ Len(urls) >= 2
    /\ \E i \in 1..Len(urls) : urls[i] = ""
    /\ fetched # <<>> /\ \A i \in 1..Len(fetched) : ~fetched[i].ok
    /\ handed = <<>>

(***************************************************************************)
(* Properties of the Content Selector.                                     *)
(***************************************************************************)
\* The place of a node in the selector's priority order (8: no candidate).
Rank(n) ==
    IF n.tag = "main" THEN 1
    ELSE IF n.tag = "article" THEN 2
    ELSE IF n.tag = "div" /\ <<"class", "main-content">> \in n.attrs THEN 3
    ELSE IF n.tag = "div" /\ <<"id", "main-content">> \in n.attrs THEN 4
    ELSE IF n.tag = "div" /\ <<"class", "content">> \in n.attrs THEN 5
    ELSE IF n.tag = "div" /\ <<"id", "content">> \in n.attrs THEN 6
    ELSE IF n.tag = "div" /\ <<"class", "primary-content">> \in n.attrs THEN 7
    ELSE 8

\* The best rank any node of the document has.
BestRank(f) ==
    LET ranks == {8} \cup {Rank(DescendantsAll(f)[i]) : i \in 1..Len(DescendantsAll(f))}
    IN CHOOSE r \in ranks : \A q \in ranks : r <= q

FallbackWarning == Warning("main-content-not-found", NoRef)

\* C5: the region returned is rooted at a candidate of the best priority
\* present in the document (main, article, div.main-content,
\* div#main-content, div.content, div#content, div.primary-content), with no
\* warning; when and only when the document has no candidate, the whole
\* document comes back unchanged with exactly one fallback warning.
C5_FirstMatchWins ==
    pc = "selected" =>
        LET best == BestRank(Parse(arg))
            out == Parse(ret.html)
        IN IF best < 8
           THEN /\ Len(out) = 1 /\ Rank(out[1]) = best
                /\ ret.log = <<>>
           ELSE /\ ret.html = arg
                /\ ret.log = <<FallbackWarning>>

\* A lower-priority container encloses or precedes a main element, and the
\* main element was returned.
C5_Witness ==
    /\ pc = "selected"
    /\ Len(arg) >= 4 /\ arg[1].k = "open" /\ Rank(arg[1]) \in 2..7
    /\ BestRank(Parse(arg)) = 1
    /\ ret.html # <<>> /\ ret.html[1].tag = "main"

RECURSIVE Region(_, _, _)
\* The tokens of the first element named tag: from its start tag to the end
\* tag that closes it (depth counts the open elements of that name).
Region(toks, tag, depth) ==
    IF toks = <<>> THEN <<>>
    ELSE LET t == toks[1] IN
         IF depth = 0
         THEN IF t.k = "open" /\ t.tag = tag
              THEN <<t>> \o Region(Tail(toks), tag, 1)
              ELSE Region(Tail(toks), tag, 0)
         ELSE IF t.k = "close" /\ t.tag = tag
              THEN IF depth = 1 THEN <<t>> ELSE <<t>> \o Region(Tail(toks), tag, depth - 1)
         ELSE IF t.k = "open" /\ t.tag = tag
              THEN <<t>> \o Region(Tail(toks), tag, depth + 1)
         ELSE <<t>> \o Region(Tail(toks), tag, depth)

RECURSIVE Without(_, _, _, _)
\* The tokens with every element named in names cut out, start tag to end
\* tag: inside one (depth > 0, of the name skip) nothing is kept.
Without(toks, names, skip, depth) ==
    IF toks = <<>> THEN <<>>
    ELSE LET t == toks[1] IN
         IF depth = 0
         THEN IF t.k = "open" /\ t.tag \in names
              THEN Without(Tail(toks), names, t.tag, 1)
              ELSE <<t>> \o Without(Tail(toks), names, skip, 0)
         ELSE IF t.k = "close" /\ t.tag = skip
              THEN Without(Tail(toks), names, skip, depth - 1)
         ELSE IF t.k = "open" /\ t.tag = skip
              THEN Without(Tail(toks), names, skip, depth + 1)
         ELSE Without(Tail(toks), names, skip, depth)

HasToken(toks, tags) == \E i \in 1..Len(toks) : toks[i].tag \in tags

\* C6: for markup with a main element, the result is the markup of the first
\* main element with every nav, header, footer and aside element inside it
\* cut out (at any depth) and everything else kept in order, whatever other
\* candidate containers the document has; no warning is raised.
C6_MainWithoutSidebars ==
    (pc = "selected" /\ HasToken(arg, {"main"})) =>
        /\ ret.html = MergeText(Without(Region(arg, "main", 0), SidebarTags, "", 0))
        /\ ~HasToken(ret.html, SidebarTags)
        /\ ret.log = <<>>

\* The main element holds a sidebar nested in another element, content is
\* kept, and another candidate container is present.
C6_Witness ==
    /\ pc = "selected"
    /\ HasToken(arg, {"main"}) /\ HasToken(arg, {"article"})
    /\ \E i \in 1..Len(arg) : \E j \in (i + 1)..Len(arg) :
          /\ arg[i].k = "open" /\ arg[i].tag \notin SidebarTags \cup {"main"}
          /\ arg[j].k = "open" /\ arg[j].tag \in SidebarTags
          /\ HasToken(Region(SubSeq(arg, i, Len(arg)), arg[i].tag, 0), SidebarTags)
          /\ HasToken(Region(arg, "main", 0), {arg[i].tag})
    /\ ~HasToken(ret.html, SidebarTags)
    /\ HasToken(ret.html, {"article"})

MaxPruneNodes == 4

PruneLabels ==
    { Elem("main", {}, <<>>), Elem("article", {}, <<>>), Elem("nav", {}, <<>>),
      Text(<<"a">>) }

\* The other sidebar elements, in one another.
PruneLabelsB ==
    { Elem("main", {}, <<>>), Elem("aside", {}, <<>>), Elem("header", {}, <<>>),
      Elem("footer", {}, <<>>) }

InitPrune ==
    /\ MainIdle
    /\ pc = "select"
    /\ arg \in Markups(PruneLabels, MaxPruneNodes) \cup Markups(PruneLabelsB, MaxPruneNodes)
    /\ ret = <<>> /\ ret2 = <<>>

SpecPrune == InitPrune /\ [][NextSelect]_vars

(***************************************************************************)
(* Style Normalizer on arbitrary markup, applied once and then again.      *)
(***************************************************************************)
MaxStyleNodes == 3

StyleLabels ==
    { Elem("html", {}, <<>>), Elem("head", {}, <<>>), Elem("body", {}, <<>>),
      Elem("main", {}, <<>>), Elem("p", {}, <<>>), Text(<<"a">>) }

InitStyle ==
    /\ MainIdle
    /\ pc = "style"
    /\ arg \in Markups(StyleLabels, MaxStyleNodes)
    /\ ret = <<>> /\ ret2 = <<>>

\* styled_html_content = style_html_content(main_content_html)
Style ==
    /\ pc = "style"
    /\ ret' = style_html_content(arg)
    /\ pc' = "styled"
    /\ UNCHANGED <<arg, ret2>>
    /\ MainUnchanged

\* style_html_content applied to its own result.
StyleAgain ==
    /\ pc = "styled"
    /\ ret2' = style_html_content(ret)
    /\ pc' = "restyled"
    /\ UNCHANGED <<arg, ret>>
    /\ MainUnchanged

NextStyle == Style \/ StyleAgain

SpecStyle == InitStyle /\ [][NextStyle]_vars

Count(toks, tag) == Len(SelectSeq(toks, LAMBDA t : t.k = "open" /\ t.tag = tag))

RECURSIVE IsSubseq(_, _)
\* a is b with some tokens left out.
IsSubseq(a, b) ==
    IF a = <<>> THEN TRUE
    ELSE IF b = <<>> THEN FALSE
    ELSE IF a[1] = b[1] THEN IsSubseq(Tail(a), Tail(b))
    ELSE IsSubseq(a, Tail(b))

\* Some html element of the document has a head element inside it.
HtmlHasHead(f) ==
    \E i \in 1..Len(DescendantsAll(f)) :
        /\ DescendantsAll(f)[i].tag = "html"
        /\ HasTag(DescendantsAll(f)[i].kids, "head")

\* One application, from the markup in to the markup out: html and head are
\* there, each new only if there was none; one style block more; everything
\* that was there is still there, in order.
StyledFrom(in, out) ==
    /\ Count(out, "html") = (IF Count(in, "html") = 0 THEN 1 ELSE Count(in, "html"))
    /\ Count(out, "head") = (IF Count(in, "head") = 0 THEN 1 ELSE Count(in, "head"))
    /\ Count(in, "html") = 0 => out[1] = StartTag(Elem("html", {}, <<>>))
    /\ Count(out, "style") = Count(in, "style") + 1
    /\ IsSubseq(in, out)
    /\ Len(out) = Len(in) + 3 + (IF Count(in, "html") = 0 THEN 2 ELSE 0)
                          + (IF Count(in, "head") = 0 THEN 2 ELSE 0)

\* C7 (as stated): the styled document contains an html element with a head
\* element, each synthesized only when absent; every application appends
\* exactly one style block and removes or alters nothing, so the second
\* application keeps what the first produced.
C7_StyleShell ==
    /\ pc \in {"styled", "restyled"} => (HtmlHasHead(Parse(ret)) /\ StyledFrom(arg, ret))
    /\ pc = "restyled" => (HtmlHasHead(Parse(ret2)) /\ StyledFrom(ret, ret2))

(***************************************************************************)
(* Block Translator on arbitrary markup.                                   *)
(***************************************************************************)
MaxTranslateNodes == 3

TranslateLabels ==
    { Elem("h1", {}, <<>>), Elem("h2", {}, <<>>), Elem("h3", {}, <<>>),
      Elem("p", {}, <<>>), Elem("div", {}, <<>>), Elem("body", {}, <<>>),
      Elem("img", {<<"src", "i.png">>}, <<>>), Elem("img", {}, <<>>), Text(<<"a">>) }

InitTranslate ==
    /\ MainIdle
    /\ pc = "translate"
    /\ arg \in Markups(TranslateLabels, MaxTranslateNodes)
    /\ ret = <<>> /\ ret2 = <<>>

\* docx_content = convert_to_docx(combined_html_content, base_url)
Translate ==
    /\ pc = "translate"
    /\ \E outs \in [1..ImageRequests(Parse(arg)) -> ImageOutcomes],
          save_ok \in BOOLEAN, named \in BOOLEAN :
        /\ ret' = convert_to_docx(arg, BaseA, outs, save_ok, named)
        /\ ret2' = [outs |-> outs, save_ok |-> save_ok]
    /\ pc' = "translated"
    /\ UNCHANGED arg
    /\ MainUnchanged

NextTranslate == Translate

SpecTranslate == InitTranslate /\ [][NextTranslate]_vars

\* The markup the walk covers.
Walked == Serialize(WalkRoot(Parse(arg)))

\* The text inside the element whose start tag is toks[i].
SpanText(toks, i) ==
    LET span == Region(SubSeq(toks, i, Len(toks)), toks[i].tag, 0)
        data == SelectSeq(span, LAMBDA t : t.k = "text")
        cat[k \in 0..Len(data)] == IF k = 0 THEN <<>> ELSE cat[k - 1] \o data[k].text
    IN cat[Len(data)]

RECURSIVE InOrder(_, _, _, _)
\* What document order asks of the walk: for each start tag of toks from i
\* on, left to right, the heading or paragraph with its text, or the image
\* if its request (the k-th) succeeds.
InOrder(toks, i, outs, k) ==
    IF i > Len(toks) THEN <<>>
    ELSE LET t == toks[i] IN
         IF t.k = "open" /\ t.tag \in {"h1", "h2", "h3", "p"}
         THEN <<[from |-> t.tag, text |-> SpanText(toks, i)]>> \o InOrder(toks, i + 1, outs, k)
         ELSE IF t.k = "open" /\ t.tag = "img" /\ Truthy(Get(t, "src"))
         THEN (IF outs[k + 1] = Fail THEN <<>> ELSE <<[from |-> "img", text |-> <<>>]>>)
              \o InOrder(toks, i + 1, outs, k + 1)
         ELSE InOrder(toks, i + 1, outs, k)

\* The blocks the walk made for elements (not for bare strings), in the
\* order it made them.
ElementBlocks(r) ==
    LET at == SelectSeq([i \in 1..Len(r.from) |-> i], LAMBDA i : r.from[i] # "#text")
    IN [j \in 1..Len(at) |-> [from |-> r.from[at[j]], text |-> r.blocks[at[j]].text]]

IsPrefix(a, b) == Len(a) <= Len(b) /\ a = SubSeq(b, 1, Len(a))

\* C8: the blocks made for heading (h1-h3), paragraph and image elements
\* come in the document order of those elements in the walked tree, at any
\* depth: they are the elements' blocks left to right (all of them when the
\* walk runs to its end, the first of them when it is cut short).
C8_DocumentOrder ==
    pc = "translated" =>
        LET want == InOrder(Walked, 1, ret2.outs, 0) IN
        IF ret.raised THEN IsPrefix(ElementBlocks(ret), want)
        ELSE ElementBlocks(ret) = want

\* A heading, paragraph or image nested in a div is followed by another one.
C8_Witness ==
    /\ pc = "translated" /\ ~ret.raised
    /\ HasToken(arg, {"div"})
    /\ Len(ElementBlocks(ret)) >= 2
    /\ ElementBlocks(ret)[1].from # ElementBlocks(ret)[2].from

RECURSIVE DropFailed(_, _, _)
\* blocks without the image blocks whose request failed: the k-th image
\* block belongs to the k-th request.
DropFailed(blocks, outs, k) ==
    IF blocks = <<>> THEN <<>>
    ELSE IF blocks[1].kind = "Image"
         THEN (IF outs[k + 1] = Fail THEN <<>> ELSE <<blocks[1]>>)
              \o DropFailed(Tail(blocks), outs, k + 1)
         ELSE <<blocks[1]>> \o DropFailed(Tail(blocks), outs, k)

AllOk(n) == [k \in 1..n |-> "ok"]

\* The same conversion with every image request answered.
Unfailed == convert_to_docx(arg, BaseA, AllOk(Len(ret2.outs)), TRUE, ret.named)

ImagesOf(blocks) == SelectSeq(blocks, LAMBDA b : b.kind = "Image")

\* C9: each failed image request costs exactly its own Image block and adds
\* exactly one warning, naming the image; nothing else changes: the walk
\* makes the same requests and the same other blocks as when every request
\* succeeds, and the conversion ends with a document whenever it does then
\* (and the writer accepts it).
C9_ImageFailureIsLocal ==
    pc = "translated" =>
        LET failed == SelectSeq([k \in 1..ret.n |-> k], LAMBDA k : ret2.outs[k] = Fail) IN
        /\ ret.n = Unfailed.n
        /\ ret.blocks = DropFailed(Unfailed.blocks, ret2.outs, 0)
        /\ Warnings(ret.log)
             = [j \in 1..Len(failed) |-> Warning("image", ImagesOf(Unfailed.blocks)[failed[j]].src)]
        /\ ret.raised = Unfailed.raised
        /\ ret2.save_ok => (ret.ok = Unfailed.ok)

\* The first image request failed, a later element was still translated and
\* the document was produced.
C9_Witness ==
    /\ pc = "translated" /\ ret.ok
    /\ ret.n >= 1 /\ ret2.outs[1] = Fail
    /\ Unfailed.blocks[1].kind = "Image"
    /\ ret.blocks # <<>>
    /\ Len(Warnings(ret.log)) = 1

(***************************************************************************)
(* Asset Inliner on arbitrary markup.                                      *)
(***************************************************************************)
MaxInlineNodes == 4

InlineLabels ==
    { Elem("link", {<<"rel", "stylesheet">>, <<"href", "s.css">>}, <<>>),
      Elem("link", {<<"rel", "stylesheet">>, <<"href", "http://cdn.example/s.css">>}, <<>>),
      Elem("link", {<<"rel", "stylesheet">>}, <<>>),
      Elem("link", {<<"rel", "icon">>, <<"href", "f.ico">>}, <<>>),
      Elem("head", {}, <<>>), Text(<<"a">>) }

StylesheetTexts == {"c1", "c2"}

InitInline ==
    /\ MainIdle
    /\ pc = "inline"
    /\ arg \in Markups(InlineLabels, MaxInlineNodes)
    /\ ret = <<>> /\ ret2 = <<>>

\* html_with_css = include_css(soup, base_url)
Inline ==
    /\ pc = "inline"
    /\ \E outs \in [1..CssRequests(Parse(arg)) -> {Fail} \cup StylesheetTexts] :
        /\ ret' = include_css(Parse(arg), BaseA, outs)
        /\ ret2' = [outs |-> outs]
    /\ pc' = "inlined"
    /\ UNCHANGED arg
    /\ MainUnchanged

NextInline == Inline

SpecInline == InitInline /\ [][NextInline]_vars

IsRequested(t) ==
    t.k = "open" /\ t.tag = "link" /\ <<"rel", "stylesheet">> \in t.attrs /\ Truthy(Get(t, "href"))

Resolved(t) ==
    IF Get(t, "href") \in HttpRefs THEN <<"", Get(t, "href")>> ELSE <<BaseA, Get(t, "href")>>

RECURSIVE Inlined(_, _, _), InlineWarnings(_, _, _)
\* The markup with the k-th requested stylesheet link replaced, where it
\* stands, by a style element holding the text its request returned, and
\* left as it is when the request failed.
Inlined(toks, outs, k) ==
    IF toks = <<>> THEN <<>>
    ELSE IF IsRequested(toks[1])
         THEN (IF outs[k + 1] = Fail THEN <<toks[1]>>
               ELSE << StartTag(Elem("style", {<<"type", "text/css">>}, <<>>)),
                       Data(<<outs[k + 1]>>), EndTag("style") >>)
              \o Inlined(Tail(toks), outs, k + 1)
         ELSE <<toks[1]>> \o Inlined(Tail(toks), outs, k)

\* One warning for each failed request, naming the resolved reference.
InlineWarnings(toks, outs, k) ==
    IF toks = <<>> THEN <<>>
    ELSE IF IsRequested(toks[1])
         THEN (IF outs[k + 1] = Fail THEN <<Warning("css", Resolved(toks[1]))>> ELSE <<>>)
              \o InlineWarnings(Tail(toks), outs, k + 1)
         ELSE InlineWarnings(Tail(toks), outs, k)

\* C10: every stylesheet link is handled on its own: replaced in place by a
\* style element with the fetched text when its request succeeds, left
\* unchanged with exactly one warning naming it when the request fails, for
\* every pattern of successes and failures; the rest of the markup is
\* untouched.
C10_StylesheetsIndependent ==
    pc = "inlined" =>
        /\ ret.html = MergeText(Inlined(arg, ret2.outs, 0))
        /\ ret.log = InlineWarnings(arg, ret2.outs, 0)

\* A failed request is followed by a successful one.
C10_Witness ==
    /\ pc = "inlined"
    /\ Len(ret2.outs) >= 2 /\ ret2.outs[1] = Fail /\ ret2.outs[2] # Fail
    /\ Len(ret.log) = 1
    /\ Count(ret.html, "style") = 1 /\ Count(ret.html, "link") >= 1

====
